---- MODULE Spec2Model ----
(***************************************************************************)
(* A model of the QP image tool (src/main.rs): the encoder encode_image,   *)
(* the decoder decode_image and the helper convert_rgba_to_rgb, together   *)
(* with the two files they touch (the .qp file and the decoded image).     *)
(* Every statement of either function is one step of a program counter,    *)
(* so that an I/O failure part-way and the order of the steps are visible. *)
(***************************************************************************)
EXTENDS Integers, Sequences, FiniteSets, TLC

(* ------------------------------ bounds --------------------------------- *)
\* Largest width and height of a source image / of a crafted header.
MaxDim == 2
\* Largest number of decompressed bytes carried by a crafted .qp stream.
MaxRaw == 12

(* ------------------------- program constants --------------------------- *)
\* b"QPIM"
MAGIC == <<81, 80, 73, 77>>
COMPRESSION_METHOD_BROTLI == 1
\* let channels = 4; // RGBA
ENC_CHANNELS == 4
\* let mut header = [0u8; 14];
HEADER_LEN == 14

(* ------------------------------ helpers -------------------------------- *)
None == <<>>
Some(x) == <<x>>
Min(a, b) == IF a < b THEN a ELSE b
Take(s, n) == SubSeq(s, 1, Min(n, Len(s)))
Drop(s, n) == SubSeq(s, n + 1, Len(s))

\* u32::to_be_bytes (most significant byte first).
to_be_bytes_le(n) ==
    << n % 256, (n \div 256) % 256, (n \div 65536) % 256, (n \div 16777216) % 256 >>
to_be_bytes(n) ==
    << (n \div 16777216) % 256, (n \div 65536) % 256, (n \div 256) % 256, n % 256 >>

\* u32::from_be_bytes([b0, b1, b2, b3])
from_be_bytes(b) == b[1] * 16777216 + b[2] * 65536 + b[3] * 256 + b[4]

(* ---- the raster codec's decode side: image::open(..)?.to_rgba8() ------ *)
\* A source image holds w*h pixels of ch samples each (1 = L8, 2 = La8,
\* 3 = Rgb8, 4 = Rgba8).
PixelOf(src, p) == SubSeq(src.samples, (p - 1) * src.ch + 1, p * src.ch)
ToRgba(px) ==
    CASE Len(px) = 1 -> << px[1], px[1], px[1], 255 >>
      [] Len(px) = 2 -> << px[1], px[1], px[1], px[2] >>
      [] Len(px) = 3 -> << px[1], px[2], px[3], 255 >>
      [] OTHER       -> px
to_rgba8(src) ==
    [ k \in 1..(src.w * src.h * 4) |->
        ToRgba(PixelOf(src, ((k - 1) \div 4) + 1))[((k - 1) % 4) + 1] ]

(* ---- the compressor: BrotliCompress / BrotliDecompress ---------------- *)
\* A lossless stand-in for the external compressor: a length byte followed
\* by the bytes shifted by 101.  Decompression undoes it and fails on a
\* stream that is empty or whose length byte disagrees (corrupt, truncated).
BrotliCompress(data) ==
    << Len(data) >> \o [ i \in 1..Len(data) |-> (data[i] + 101) % 256 ]
BrotliDecompress(data) ==
    IF Len(data) >= 1 /\ data[1] = Len(data) - 1
    THEN Some([ i \in 1..(Len(data) - 1) |-> (data[i + 1] + 155) % 256 ])
    ELSE None

(* ---- ImageBuffer::from_raw(width, height, buf) ------------------------ *)
\* Some(buffer) iff the container holds at least width*height*nch samples;
\* the container is kept whole, only its first width*height*nch samples
\* are the image's pixels.
from_raw(w, h, nch, buf) ==
    IF w * h * nch <= Len(buf) THEN Some([w |-> w, h |-> h, data |-> buf]) ELSE None

\* The samples the raster codec encodes: the first w*h*nch of the container.
Pixels(im, nch) == SubSeq(im.data, 1, im.w * im.h * nch)

(* ---- convert_rgba_to_rgb ---------------------------------------------- *)
RECURSIVE Chunks(_, _)
Chunks(s, n) == IF s = <<>> THEN <<>> ELSE << Take(s, n) >> \o Chunks(Drop(s, n), n)
RECURSIVE Flatten(_)
Flatten(ss) == IF ss = <<>> THEN <<>> ELSE Head(ss) \o Flatten(Tail(ss))
convert_rgba_to_rgb_drop_first(rgba_data) ==
    Flatten([ i \in DOMAIN Chunks(rgba_data, 4) |-> Drop(Chunks(rgba_data, 4)[i], 1) ])
convert_rgba_to_rgb(rgba_data) ==
    Flatten([ i \in DOMAIN Chunks(rgba_data, 4) |-> Take(Chunks(rgba_data, 4)[i], 3) ])

(* ---- output_path.extension().and_then(to_str).map(to_lowercase) ------- *)
\* A path is its file name, a sequence of characters.
UpperChars == << "A","B","C","D","E","F","G","H","I","J","K","L","M",
                 "N","O","P","Q","R","S","T","U","V","W","X","Y","Z" >>
LowerChars == << "a","b","c","d","e","f","g","h","i","j","k","l","m",
                 "n","o","p","q","r","s","t","u","v","w","x","y","z" >>
LowerChar(c) ==
    IF \E i \in DOMAIN UpperChars : UpperChars[i] = c
    THEN LowerChars[CHOOSE i \in DOMAIN UpperChars : UpperChars[i] = c]
    ELSE c
to_lowercase(s) == [ i \in 1..Len(s) |-> LowerChar(s[i]) ]

\* Path::extension: the part after the last '.', none when the name has no
\* '.' or its only '.' is the first character.
extension(path) ==
    LET dots == { i \in 2..Len(path) : path[i] = "." }
    IN  IF dots = {} THEN None
        ELSE Some(Drop(path, CHOOSE i \in dots : \A j \in dots : j <= i))

\* The arms of the match of lines 157-167 on the lower-cased extension.
FormatOf(ext_lower) ==
    CASE ext_lower = <<"p","n","g">>     -> Some("Png")
      [] ext_lower = <<"j","p","g">>     -> Some("Jpeg")
      [] ext_lower = <<"j","p","e","g">> -> Some("Jpeg")
      [] ext_lower = <<"b","m","p">>     -> Some("Bmp")
      [] ext_lower = <<"g","i","f">>     -> Some("Gif")
      [] ext_lower = <<"t","i","f","f">> -> Some("Tiff")
      [] ext_lower = <<"i","c","o">>     -> Some("Ico")
      [] ext_lower = <<"t","g","a">>     -> Some("Tga")
      [] ext_lower = <<"w","e","b","p">> -> Some("WebP")
      [] OTHER                           -> None

\* output_path.extension().and_then(|ext| ext.to_str())
\*     .map(|ext_str| ext_str.to_lowercase()), then the match.
OutputFormatCaseSensitive(path) ==
    IF extension(path) = None THEN None ELSE FormatOf(extension(path)[1])
OutputFormat(path) ==
    IF extension(path) = None THEN None
    ELSE FormatOf(to_lowercase(extension(path)[1]))

(* ------------------------------ inputs --------------------------------- *)
\* Source images: every width and height up to MaxDim, every channel count.
Sample(w, h, c, i) == (w * 17 + h * 29 + c * 53 + i * 37) % 256
RedImage == [w |-> 2, h |-> 1, ch |-> 3, samples |-> <<255, 0, 0, 255, 0, 0>>]
SourceImages ==
    { [w |-> w, h |-> h, ch |-> c,
       samples |-> [ i \in 1..(w * h * c) |-> Sample(w, h, c, i) ]] :
        w \in 1..MaxDim, h \in 1..MaxDim, c \in 1..4 } \cup { RedImage }

\* Crafted .qp streams: every combination of magic, width, height,
\* channels, compression method and payload below, and every short stream.
RawData(n) == [ i \in 1..n |-> (i * 37 + 11) % 256 ]
Magics == { MAGIC, <<82, 80, 73, 77>>, <<81, 80, 73, 109>> }
ChannelValues == { 0, 3, 4, 5, 255 }
MethodValues == { 0, 1, 2 }
Payloads ==
    { BrotliCompress(RawData(n)) : n \in 0..MaxRaw } \cup { <<>>, <<7, 1, 2>> }
CraftedStreams ==
    { m \o to_be_bytes(w) \o to_be_bytes(h) \o <<c, cm>> \o p :
        m \in Magics, w \in 0..MaxDim, h \in 1..MaxDim,
        c \in ChannelValues, cm \in MethodValues, p \in Payloads }
    \cup { Take(m \o to_be_bytes(1) \o to_be_bytes(1) \o <<4, 1>>, n) :
        m \in Magics, n \in 0..(HEADER_LEN - 1) }

\* Destination paths of decode (file names).
Paths ==
    { <<"a",".","p","n","g">>, <<"a",".","P","N","G">>, <<"a",".","j","p","g">>,
      <<"a",".","J","p","e","g">>, <<"a",".","b","m","p">>, <<"a",".","g","i","f">>,
      <<"a",".","t","i","f","f">>, <<"a",".","i","c","o">>, <<"a",".","t","g","a">>,
      <<"a",".","W","e","b","P">>, <<"a",".","x","y","z">>, <<"a">>,
      <<".","p","n","g">> }
CraftedPaths ==
    { <<"a",".","P","N","G">>, <<"a",".","W","e","b","P">>, <<"a",".","x","y","z">>,
      <<"a">> }

\* What the files hold before the first invocation.
OldQP == MAGIC \o to_be_bytes(1) \o to_be_bytes(1) \o <<4, 1>>
            \o BrotliCompress(<<1, 2, 3, 4>>)
OldOut == [format |-> "Png", kind |-> "old", w |-> 0, h |-> 0, data |-> <<>>]

(* ------------------------------- state --------------------------------- *)
VARIABLES
    pc,                 \* position in main / encode_image / decode_image
    cmd,                \* Commands::Encode or Commands::Decode
    err,                \* the Err(e) the invocation returned, "" if none
    steps,              \* history: the steps the invocation has executed
    qp_file,            \* the .qp file: None, or Some(bytes)
    out_file,           \* the decoded image file: None, or Some(image)
    qp_before,          \* history: qp_file when encode_image was entered
    encoded,            \* history: the buffer of the last encode that returned Ok
    out_before,         \* history: out_file when decode_image was entered
    input,              \* encode: the image at input_path, None if unreadable
    output_path,        \* decode: the destination path
    input_file,         \* decode: the bytes of input_file not yet read
    pixel_data, header, width, height, channels, compression_method,
    compressed_data, decompressed_data, img, dynamic_image, output_format

files == << qp_file, out_file >>
history == << qp_before, out_before, encoded >>
locals == << input, output_path, input_file, pixel_data, header, width, height,
             channels, compression_method, compressed_data, decompressed_data,
             img, dynamic_image, output_format >>
vars == << pc, cmd, err, steps, files, history, locals >>

NoImg == [w |-> 0, h |-> 0, data |-> <<>>]
NoDyn == [kind |-> "none", w |-> 0, h |-> 0, data |-> <<>>]

\* A fresh process: no local is set.
FreshLocals ==
    /\ input = None /\ output_path = <<>> /\ input_file = <<>>
    /\ pixel_data = <<>> /\ header = <<>> /\ width = 0 /\ height = 0
    /\ channels = 0 /\ compression_method = 0
    /\ compressed_data = <<>> /\ decompressed_data = <<>>
    /\ img = NoImg /\ dynamic_image = NoDyn /\ output_format = None

InitCommon ==
    /\ pc = "idle" /\ cmd = "none" /\ err = "" /\ steps = <<>>
    /\ out_file \in { None, Some(OldOut) }
    /\ qp_before = None /\ out_before = None /\ encoded = None
    /\ FreshLocals

\* The encode-then-decode scenario: the .qp file is absent or an old file.
Init == InitCommon /\ qp_file \in { None, Some(OldQP) }

\* The decoder on crafted streams.
DecInit == InitCommon /\ qp_file \in { Some(s) : s \in CraftedStreams }

\* return Err(e)
Fail(e) == pc' = "failed" /\ err' = e
Step(name, next) == pc' = next /\ steps' = Append(steps, name)

(* ------------------------------- main ---------------------------------- *)
\* A fresh process runs `qp encode <input> <output>`.
EncodeStart(src) ==
    /\ pc = "idle"
    /\ pc' = "e_open" /\ cmd' = "encode" /\ err' = "" /\ steps' = <<>>
    /\ input' = src
    /\ qp_before' = qp_file
    /\ UNCHANGED << files, out_before, encoded, output_path, input_file, pixel_data, header,
                    width, height, channels, compression_method, compressed_data,
                    decompressed_data, img, dynamic_image, output_format >>

\* A fresh process runs `qp decode <input> <output>`, at first or after an
\* encode has ended; its locals start unset.
DecodeStart(path) ==
    /\ \/ pc = "idle"
       \/ cmd = "encode" /\ pc \in { "ok", "failed" }
    /\ pc' = "d_open" /\ cmd' = "decode" /\ err' = "" /\ steps' = <<>>
    /\ output_path' = path
    /\ out_before' = out_file /\ qp_before' = None /\ UNCHANGED encoded
    /\ input' = None /\ input_file' = <<>> /\ pixel_data' = <<>> /\ header' = <<>>
    /\ width' = 0 /\ height' = 0 /\ channels' = 0 /\ compression_method' = 0
    /\ compressed_data' = <<>> /\ decompressed_data' = <<>>
    /\ img' = NoImg /\ dynamic_image' = NoDyn /\ output_format' = None
    /\ UNCHANGED files

(* ---------------------------- encode_image ----------------------------- *)
\* let img = image::open(input_path)?.to_rgba8();
\* let (width, height) = img.dimensions(); let pixel_data = img.into_raw();
EncodeOpen ==
    /\ pc = "e_open"
    /\ IF input = None
       THEN /\ Fail("ImageError") /\ steps' = Append(steps, "open")
            /\ UNCHANGED << width, height, channels, pixel_data >>
       ELSE /\ Step("open", "e_compress") /\ UNCHANGED err
            /\ width' = input[1].w /\ height' = input[1].h
            /\ channels' = ENC_CHANNELS
            /\ pixel_data' = to_rgba8(input[1])
    /\ UNCHANGED << cmd, files, history, input, output_path, input_file, header,
                    compression_method, compressed_data, decompressed_data, img,
                    dynamic_image, output_format >>

\* BrotliCompress(&mut &pixel_data[..], &mut compressed_data, &params)?;
EncodeCompress ==
    /\ pc = "e_compress"
    /\ Step("compress", "e_header")
    /\ compressed_data' = BrotliCompress(pixel_data)
    /\ UNCHANGED << cmd, err, files, history, input, output_path, input_file,
                    pixel_data, header, width, height, channels, compression_method,
                    decompressed_data, img, dynamic_image, output_format >>

\* The header of lines 85-90.
MakeHeaderSwapped(w, h, c) ==
    MAGIC \o to_be_bytes(h) \o to_be_bytes(w) \o << c, COMPRESSION_METHOD_BROTLI >>
MakeHeader(w, h, c) ==
    MAGIC \o to_be_bytes(w) \o to_be_bytes(h) \o << c, COMPRESSION_METHOD_BROTLI >>

EncodeHeader ==
    /\ pc = "e_header"
    /\ Step("header", "e_create")
    /\ header' = MakeHeader(width, height, channels)
    /\ UNCHANGED << cmd, err, files, history, input, output_path, input_file,
                    pixel_data, width, height, channels, compression_method,
                    compressed_data, decompressed_data, img, dynamic_image,
                    output_format >>

\* let mut output_file = File::create(output_path)?;
\* On success the file exists and is empty; on failure it is untouched.
EncodeCreateNoTruncate ==
    /\ pc = "e_create"
    /\ \E created \in BOOLEAN :
         IF created
         THEN /\ Step("create", "e_write_header") /\ UNCHANGED err
              /\ qp_file' = IF qp_file = None THEN Some(<<>>) ELSE qp_file
         ELSE /\ Fail("IoError") /\ steps' = Append(steps, "create")
              /\ UNCHANGED qp_file
    /\ UNCHANGED << cmd, out_file, history, locals >>
EncodeCreate ==
    /\ pc = "e_create"
    /\ \E created \in BOOLEAN :
         IF created
         THEN /\ Step("create", "e_write_header") /\ UNCHANGED err
              /\ qp_file' = Some(<<>>)
         ELSE /\ Fail("IoError") /\ steps' = Append(steps, "create")
              /\ UNCHANGED qp_file
    /\ UNCHANGED << cmd, out_file, history, locals >>

\* write_all(buf) appends all of buf, or fails after appending n < len bytes.
WriteAll(buf, n, name, next) ==
    /\ qp_file' = Some(qp_file[1] \o Take(buf, n))
    /\ IF n = Len(buf)
       THEN Step(name, next) /\ UNCHANGED err
       ELSE Fail("IoError") /\ steps' = Append(steps, name)
    /\ UNCHANGED << cmd, out_file, qp_before, out_before, locals >>

\* output_file.write_all(&header)?;
EncodeWriteHeader ==
    /\ pc = "e_write_header"
    /\ \E n \in 0..Len(header) : WriteAll(header, n, "write_header", "e_write_payload")
    /\ UNCHANGED encoded

\* output_file.write_all(&compressed_data)?;  Ok(())
EncodeWritePayload ==
    /\ pc = "e_write_payload"
    /\ \E n \in 0..Len(compressed_data) :
         /\ WriteAll(compressed_data, n, "write_payload", "ok")
         /\ encoded' = IF n = Len(compressed_data)
                        THEN Some([w |-> width, h |-> height, data |-> pixel_data])
                        ELSE encoded

(* ---------------------------- decode_image ----------------------------- *)
decUnread == << header, width, height, channels, compression_method,
                compressed_data, decompressed_data, img, dynamic_image,
                output_format >>

\* let mut input_file = File::open(input_path)?;
DecodeOpen ==
    /\ pc = "d_open"
    /\ IF qp_file = None
       THEN Fail("IoError") /\ UNCHANGED << steps, input_file >>
       ELSE /\ pc' = "d_read_header" /\ UNCHANGED << err, steps >>
            /\ input_file' = qp_file[1]
    /\ UNCHANGED << cmd, files, history, input, output_path, pixel_data, decUnread >>

\* input_file.read_exact(&mut header)?;   (step 1)
DecodeReadHeader ==
    /\ pc = "d_read_header"
    /\ IF Len(input_file) < HEADER_LEN
       THEN /\ Fail("IoError") /\ steps' = Append(steps, "read_header")
            /\ UNCHANGED << header, input_file >>
       ELSE /\ Step("read_header", "d_magic") /\ UNCHANGED err
            /\ header' = Take(input_file, HEADER_LEN)
            /\ input_file' = Drop(input_file, HEADER_LEN)
    /\ UNCHANGED << cmd, files, history, input, output_path, pixel_data, width,
                    height, channels, compression_method, compressed_data,
                    decompressed_data, img, dynamic_image, output_format >>

\* if &header[0..4] != MAGIC { return Err(..Incorrect magic number..) }  (step 2)
MagicOkFirstByte(h) == h[1] = MAGIC[1]
MagicOk(h) == SubSeq(h, 1, 4) = MAGIC

DecodeMagic ==
    /\ pc = "d_magic"
    /\ IF MagicOk(header)
       THEN Step("validate_magic", "d_parse") /\ UNCHANGED err
       ELSE Fail("BadMagic") /\ steps' = Append(steps, "validate_magic")
    /\ UNCHANGED << cmd, files, history, locals >>

\* Lines 114-117.  (step 3)
DecodeParse ==
    /\ pc = "d_parse"
    /\ Step("parse_fields", "d_method")
    /\ width' = from_be_bytes(SubSeq(header, 5, 8))
    /\ height' = from_be_bytes(SubSeq(header, 9, 12))
    /\ channels' = header[13]
    /\ compression_method' = header[14]
    /\ UNCHANGED << cmd, err, files, history, input, output_path, input_file,
                    pixel_data, header, compressed_data, decompressed_data, img,
                    dynamic_image, output_format >>

\* if compression_method != COMPRESSION_METHOD_BROTLI { return Err(..) }  (step 4)
MethodOkUpTo(cm) == cm <= COMPRESSION_METHOD_BROTLI
MethodOk(cm) == cm = COMPRESSION_METHOD_BROTLI

DecodeMethod ==
    /\ pc = "d_method"
    /\ IF MethodOk(compression_method)
       THEN Step("validate_method", "d_read_payload") /\ UNCHANGED err
       ELSE Fail("UnsupportedCompression") /\ steps' = Append(steps, "validate_method")
    /\ UNCHANGED << cmd, files, history, locals >>

\* input_file.read_to_end(&mut compressed_data)?;  (step 5)
DecodeReadPayload ==
    /\ pc = "d_read_payload"
    /\ Step("read_payload", "d_decompress")
    /\ compressed_data' = input_file
    /\ input_file' = <<>>
    /\ UNCHANGED << cmd, err, files, history, input, output_path, pixel_data, header,
                    width, height, channels, compression_method, decompressed_data,
                    img, dynamic_image, output_format >>

\* BrotliDecompress(&mut &compressed_data[..], &mut decompressed_data)?;  (step 6)
DecodeDecompress ==
    /\ pc = "d_decompress"
    /\ LET r == BrotliDecompress(compressed_data)
       IN  IF r = None
           THEN /\ Fail("DecompressError") /\ steps' = Append(steps, "decompress")
                /\ UNCHANGED decompressed_data
           ELSE /\ Step("decompress", "d_reconstruct") /\ UNCHANGED err
                /\ decompressed_data' = r[1]
    /\ UNCHANGED << cmd, files, history, input, output_path, input_file, pixel_data,
                    header, width, height, channels, compression_method,
                    compressed_data, img, dynamic_image, output_format >>

\* let img = ImageBuffer::from_raw(width, height, decompressed_data.clone())
\*     .ok_or("Failed to reconstruct image from pixel data.")?;  (step 7)
DecodeReconstruct ==
    /\ pc = "d_reconstruct"
    /\ LET r == from_raw(width, height, 4, decompressed_data)
       IN  IF r = None
           THEN /\ Fail("ReconstructError") /\ steps' = Append(steps, "reconstruct")
                /\ UNCHANGED img
           ELSE /\ Step("reconstruct", "d_channels") /\ UNCHANGED err
                /\ img' = r[1]
    /\ UNCHANGED << cmd, files, history, input, output_path, input_file, pixel_data,
                    header, width, height, channels, compression_method,
                    compressed_data, decompressed_data, dynamic_image, output_format >>

\* let dynamic_image = match channels { 3 => .., 4 => .., _ => return Err(..) };
\* The result of the match: the image with err = "", or the error.  (step 8)
MatchOk(kind, im) ==
    [err |-> "", image |-> [kind |-> kind, w |-> im.w, h |-> im.h, data |-> im.data]]
MatchErr(e) == [err |-> e, image |-> NoDyn]
Rgb8Of(w, h, rgba) ==
    LET r == from_raw(w, h, 3, convert_rgba_to_rgb(rgba))
    IN  IF r = None THEN MatchErr("RgbError") ELSE MatchOk("Rgb8", r[1])
ChannelBranchAny(c, w, h, im, rgba) ==
    IF c = 3 THEN Rgb8Of(w, h, rgba) ELSE MatchOk("Rgba8", im)
ChannelBranch(c, w, h, im, rgba) ==
    CASE c = 3 -> Rgb8Of(w, h, rgba)
      [] c = 4 -> MatchOk("Rgba8", im)
      [] OTHER -> MatchErr("UnsupportedChannels")

DecodeChannels ==
    /\ pc = "d_channels"
    /\ LET r == ChannelBranch(channels, width, height, img, decompressed_data)
       IN  IF r.err # ""
           THEN /\ Fail(r.err) /\ steps' = Append(steps, "channel_branch")
                /\ UNCHANGED dynamic_image
           ELSE /\ Step("channel_branch", "d_format") /\ UNCHANGED err
                /\ dynamic_image' = r.image
    /\ UNCHANGED << cmd, files, history, input, output_path, input_file, pixel_data,
                    header, width, height, channels, compression_method,
                    compressed_data, decompressed_data, img, output_format >>

\* let output_format = match output_path.extension()... { .. };  (step 9)
DecodeFormatCreatesFile ==
    /\ pc = "d_format"
    /\ out_file' = Some([format |-> "", kind |-> "partial", w |-> 0, h |-> 0,
                         data |-> <<>>])
    /\ LET f == OutputFormat(output_path)
       IN  IF f = None
           THEN /\ Fail("UnsupportedFormat") /\ steps' = Append(steps, "output_format")
                /\ UNCHANGED output_format
           ELSE /\ Step("output_format", "d_save") /\ UNCHANGED err
                /\ output_format' = f
    /\ UNCHANGED << cmd, qp_file, history, input, output_path, input_file, pixel_data,
                    header, width, height, channels, compression_method,
                    compressed_data, decompressed_data, img, dynamic_image >>
DecodeFormat ==
    /\ pc = "d_format"
    /\ LET f == OutputFormat(output_path)
       IN  IF f = None
           THEN /\ Fail("UnsupportedFormat") /\ steps' = Append(steps, "output_format")
                /\ UNCHANGED output_format
           ELSE /\ Step("output_format", "d_save") /\ UNCHANGED err
                /\ output_format' = f
    /\ UNCHANGED << cmd, files, history, input, output_path, input_file, pixel_data,
                    header, width, height, channels, compression_method,
                    compressed_data, decompressed_data, img, dynamic_image >>

\* dynamic_image.save_with_format(output_path, output_format)?;  Ok(())  (step 10)
\* The raster codec creates the destination and encodes into it; it may
\* fail before creating the file or after (leaving a partial file).
NchOf(kind) == IF kind = "Rgb8" THEN 3 ELSE 4
Written(dyn, fmt) ==
    [format |-> fmt, kind |-> dyn.kind, w |-> dyn.w, h |-> dyn.h,
     data |-> Pixels(dyn, NchOf(dyn.kind))]
Partial(fmt) == [format |-> fmt, kind |-> "partial", w |-> 0, h |-> 0, data |-> <<>>]

DecodeSave ==
    /\ pc = "d_save"
    /\ steps' = Append(steps, "save")
    /\ \E outcome \in { "saved", "not_created", "partial" } :
         CASE outcome = "saved" ->
                /\ pc' = "ok" /\ UNCHANGED err
                /\ out_file' = Some(Written(dynamic_image, output_format[1]))
           [] outcome = "not_created" ->
                /\ Fail("SaveError") /\ UNCHANGED out_file
           [] OTHER ->
                /\ Fail("SaveError")
                /\ out_file' = Some(Partial(output_format[1]))
    /\ UNCHANGED << cmd, qp_file, history, locals >>

(* --------------------------- specifications ---------------------------- *)
Encode ==
    \/ EncodeOpen \/ EncodeCompress \/ EncodeHeader
    \/ EncodeCreate \/ EncodeWriteHeader \/ EncodeWritePayload
Decode ==
    \/ DecodeOpen \/ DecodeReadHeader \/ DecodeMagic \/ DecodeParse
    \/ DecodeMethod \/ DecodeReadPayload \/ DecodeDecompress
    \/ DecodeReconstruct \/ DecodeChannels \/ DecodeFormat \/ DecodeSave

\* qp encode, then qp decode of the file it wrote.
Next ==
    \/ \E src \in { None } \cup { Some(i) : i \in SourceImages } : EncodeStart(src)
    \/ \E path \in Paths : DecodeStart(path)
    \/ Encode
    \/ Decode
Spec == Init /\ [][Next]_vars

\* qp decode of a crafted file.
DecNext ==
    \/ \E path \in CraftedPaths : DecodeStart(path)
    \/ Decode
DecSpec == DecInit /\ [][DecNext]_vars

(* ------------------------------ properties ----------------------------- *)
\* The invocation has returned.
Returned == pc \in { "ok", "failed" }
DecReturned == cmd = "decode" /\ Returned

\* What the input stream of a decode says, read off its bytes.
Stream == qp_file[1]
HasHeader == qp_file # None /\ Len(Stream) >= 14
StreamMagicOk == << Stream[1], Stream[2], Stream[3], Stream[4] >> = << 81, 80, 73, 77 >>
StreamWidth == Stream[5] * 16777216 + Stream[6] * 65536 + Stream[7] * 256 + Stream[8]
StreamHeight == Stream[9] * 16777216 + Stream[10] * 65536 + Stream[11] * 256 + Stream[12]
StreamChannels == Stream[13]
StreamMethod == Stream[14]
StreamPayload == SubSeq(Stream, 15, Len(Stream))
StreamRaw == BrotliDecompress(StreamPayload)
StreamDecompresses == StreamRaw # None
StreamRawLen == Len(StreamRaw[1])
StreamPixelBytes == StreamWidth * StreamHeight * 4

\* The steps of decode_image in the order of the decoder's state machine.
DecodeOrder ==
    << "read_header", "validate_magic", "parse_fields", "validate_method",
       "read_payload", "decompress", "reconstruct", "channel_branch",
       "output_format", "save" >>
Ran(name) == \E i \in DOMAIN steps : steps[i] = name

(* C1. Round trip: a decode_image that reads the file a successful
   encode_image wrote for the RGBA8 buffer P of a W x H image never fails in
   the steps up to and including the channel branch (it can only fail on the
   destination's extension or in the raster codec's save), the image it
   builds is an RGBA8 image of W x H whose bytes are exactly P, and that is
   the image the raster codec is handed and writes. *)
C1_RoundTrip ==
    (cmd = "decode" /\ encoded # None) =>
        /\ pc = "failed" => err \in { "UnsupportedFormat", "SaveError" }
        /\ Ran("channel_branch") =>
              dynamic_image = [kind |-> "Rgba8", w |-> encoded[1].w,
                               h |-> encoded[1].h, data |-> encoded[1].data]
        /\ Ran("reconstruct") => Len(decompressed_data) = encoded[1].w * encoded[1].h * 4
        /\ pc = "ok" =>
              out_file = Some([format |-> output_format[1], kind |-> "Rgba8",
                               w |-> encoded[1].w, h |-> encoded[1].h,
                               data |-> encoded[1].data])

C1_Witness ==
    /\ cmd = "decode" /\ encoded # None /\ pc = "ok"
    /\ encoded[1].w = 2 /\ encoded[1].h = 1
    /\ encoded[1].data = << 255, 0, 0, 255, 255, 0, 0, 255 >>
    /\ out_file[1].data = encoded[1].data /\ out_file[1].w = 2 /\ out_file[1].h = 1

(* C2 as stated. Header rejection: whenever decode_image has returned for an
   input stream, of any length, whose first 4 bytes differ from "QPIM", it
   has failed and the error is the incorrect-magic format error. *)
C2_AnyLengthBadMagic ==
    (DecReturned /\ qp_file # None /\ Len(Stream) >= 4 /\ ~StreamMagicOk) =>
        (pc = "failed" /\ err = "BadMagic")

(* C2 as amended. For an input stream of at least 14 bytes whose first 4
   bytes differ from "QPIM", decode_image fails with the incorrect-magic
   format error right after reading the header, whatever the rest holds; a
   stream of fewer than 14 bytes fails with the I/O error of read_exact,
   whatever its first bytes are. *)
C2_HeaderRejection ==
    (DecReturned /\ qp_file # None) =>
        /\ (HasHeader /\ ~StreamMagicOk) =>
              /\ pc = "failed" /\ err = "BadMagic"
              /\ steps = << "read_header", "validate_magic" >>
        /\ ~HasHeader =>
              /\ pc = "failed" /\ err = "IoError"
              /\ steps = << "read_header" >>

C2_Witness ==
    /\ DecReturned /\ HasHeader /\ ~StreamMagicOk
    /\ StreamMethod = 1 /\ StreamChannels = 4
    /\ StreamDecompresses /\ StreamRawLen = StreamPixelBytes /\ StreamRawLen = 8
    /\ err = "BadMagic"

(* C3. Compression-method rejection: for a stream with a 14-byte header,
   magic "QPIM" and a CompressionMethod byte other than 1, decode_image
   never reads or decompresses the payload, and once it has returned it has
   failed with the unsupported-compression-method error, for every width,
   height, channels value and payload. *)
C3_MethodRejection ==
    (cmd = "decode" /\ HasHeader /\ StreamMagicOk /\ StreamMethod # 1) =>
        /\ ~Ran("read_payload") /\ ~Ran("decompress")
        /\ compressed_data = <<>> /\ decompressed_data = <<>>
        /\ pc \notin { "d_decompress", "d_reconstruct", "d_channels", "d_format",
                       "d_save", "ok" }
        /\ Returned =>
              /\ pc = "failed" /\ err = "UnsupportedCompression"
              /\ input_file = StreamPayload

C3_Witness ==
    /\ DecReturned /\ HasHeader /\ StreamMagicOk /\ StreamMethod = 2
    /\ StreamChannels = 4 /\ StreamDecompresses
    /\ StreamRawLen = StreamPixelBytes /\ StreamRawLen = 4
    /\ err = "UnsupportedCompression"

(* C4 as stated. Channel validity: for a stream with valid magic and
   compression method 1 whose Channels byte is neither 3 nor 4, decode_image
   fails with the unsupported-channel-count error whatever the width, height
   and payload are. *)
C4_AlwaysChannelError ==
    (DecReturned /\ HasHeader /\ StreamMagicOk /\ StreamMethod = 1
        /\ StreamChannels \notin { 3, 4 }) =>
        (pc = "failed" /\ err = "UnsupportedChannels")

(* C4 as amended. For a stream with valid magic and compression method 1,
   decode_image gets past the channel branch, and so succeeds, only if the
   Channels byte is 3 or 4; for every other Channels value it fails, and the
   error is the unsupported-channel-count error exactly when the payload
   decompresses to at least width*height*4 bytes: otherwise the
   decompression or reconstruction step, which run first, report theirs. *)
C4_ChannelValidity ==
    (cmd = "decode" /\ HasHeader /\ StreamMagicOk /\ StreamMethod = 1) =>
        /\ pc \in { "d_format", "d_save", "ok" } => StreamChannels \in { 3, 4 }
        /\ Ran("output_format") => StreamChannels \in { 3, 4 }
        /\ (Returned /\ StreamChannels \notin { 3, 4 }) =>
              /\ pc = "failed"
              /\ err = IF ~StreamDecompresses THEN "DecompressError"
                       ELSE IF StreamRawLen < StreamPixelBytes THEN "ReconstructError"
                       ELSE "UnsupportedChannels"

C4_Witness ==
    /\ DecReturned /\ HasHeader /\ StreamMagicOk /\ StreamMethod = 1
    /\ StreamChannels = 255 /\ StreamDecompresses
    /\ StreamRawLen = StreamPixelBytes /\ StreamRawLen = 8
    /\ err = "UnsupportedChannels"

(* C5 as stated. Size consistency: for a stream with valid magic and
   compression method 1 and width, height >= 1 whose payload decompresses
   to L bytes with L # width*height*4, decode_image fails: it never returns
   Ok, be Channels 3 or 4. *)
C5_SizeConsistency ==
    (DecReturned /\ HasHeader /\ StreamMagicOk /\ StreamMethod = 1
        /\ StreamWidth >= 1 /\ StreamHeight >= 1
        /\ StreamDecompresses /\ StreamRawLen # StreamPixelBytes) =>
        pc = "failed"

(* C6. Encoder header layout: when encode_image has returned Ok for a source
   image of width W and height H, of any original channel count, the file
   holds exactly 51 50 49 4D, W and H as big-endian u32, 04, 01, followed by
   the compressed form of the W*H*4-byte RGBA buffer and nothing else; for
   the 2x1 red image the first 14 bytes are
   51 50 49 4D 00 00 00 02 00 00 00 01 04 01. *)
C6_HeaderLayout ==
    (cmd = "encode" /\ pc = "ok") =>
        /\ qp_file =
              Some(<< 81, 80, 73, 77,
                      0, 0, input[1].w \div 256, input[1].w % 256,
                      0, 0, input[1].h \div 256, input[1].h % 256,
                      4, 1 >> \o BrotliCompress(to_rgba8(input[1])))
        /\ Len(to_rgba8(input[1])) = input[1].w * input[1].h * 4
        /\ input[1] = RedImage =>
              /\ SubSeq(qp_file[1], 1, 14) =
                    << 81, 80, 73, 77, 0, 0, 0, 2, 0, 0, 0, 1, 4, 1 >>
              /\ SubSeq(qp_file[1], 15, Len(qp_file[1])) =
                    BrotliCompress(<< 255, 0, 0, 255, 255, 0, 0, 255 >>)

C6_Witness ==
    /\ cmd = "encode" /\ pc = "ok" /\ input[1] = RedImage
    /\ SubSeq(qp_file[1], 1, 14) = << 81, 80, 73, 77, 0, 0, 0, 2, 0, 0, 0, 1, 4, 1 >>

\* The format each destination path of Paths selects, by hand.
ExpectedFormat(path) ==
    CASE path = <<"a",".","p","n","g">>     -> Some("Png")
      [] path = <<"a",".","P","N","G">>     -> Some("Png")
      [] path = <<"a",".","j","p","g">>     -> Some("Jpeg")
      [] path = <<"a",".","J","p","e","g">> -> Some("Jpeg")
      [] path = <<"a",".","b","m","p">>     -> Some("Bmp")
      [] path = <<"a",".","g","i","f">>     -> Some("Gif")
      [] path = <<"a",".","t","i","f","f">> -> Some("Tiff")
      [] path = <<"a",".","i","c","o">>     -> Some("Ico")
      [] path = <<"a",".","t","g","a">>     -> Some("Tga")
      [] path = <<"a",".","W","e","b","P">> -> Some("WebP")
      [] OTHER                              -> None

(* C7. Extension inference: the format decode_image chooses is the one the
   table ExpectedFormat gives for the destination path, whatever the input file
   holds (extension matched case-insensitively); for a destination with no
   extension or an extension outside the set, decode_image never reaches
   the raster codec's save and never touches the destination, and the
   format step, when the invocation gets to it, fails with the
   unsupported-output-format error. *)
C7_ExtensionInference ==
    cmd = "decode" =>
        /\ (Ran("output_format") /\ ExpectedFormat(output_path) # None) =>
              /\ output_format = ExpectedFormat(output_path)
              /\ err # "UnsupportedFormat"
        /\ ExpectedFormat(output_path) = None =>
              /\ pc \notin { "d_save", "ok" } /\ ~Ran("save")
              /\ out_file = out_before
              /\ Ran("output_format") => (pc = "failed" /\ err = "UnsupportedFormat")
        /\ (Ran("save") \/ pc = "d_save") => output_format = ExpectedFormat(output_path)

C7_Witness ==
    /\ DecReturned /\ output_path = <<"a",".","x","y","z">>
    /\ Ran("channel_branch") /\ err = "UnsupportedFormat" /\ ~Ran("save")

IsPrefix(s, t) == Len(s) <= Len(t) /\ s = SubSeq(t, 1, Len(s))

(* C8 as stated. Atomic encoder write: in every state of an encode_image
   invocation the destination holds either what it held before the
   invocation (or does not exist) or the complete header followed by the
   complete compressed payload. *)
C8_AtomicWrite ==
    cmd = "encode" =>
        \/ qp_file = qp_before
        \/ /\ Len(header) = 14
           /\ qp_file = Some(header \o compressed_data)

(* C8 as amended. encode_image creates the destination with truncate-create
   semantics and then writes the header and the compressed payload one
   after the other, not atomically: the destination holds what it held
   before until File::create succeeds, and from then on a prefix of
   Header || CompressedPayload (empty, header-only or truncated while the
   writes are under way or after an I/O failure ended them, with no
   clean-up); it holds the complete Header || CompressedPayload whenever
   encode_image has returned Ok. *)
C8_TruncateCreateThenWrite ==
    cmd = "encode" =>
        /\ pc \in { "e_open", "e_compress", "e_header", "e_create" } => qp_file = qp_before
        /\ (pc = "failed" /\ ~Ran("write_header")) => qp_file = qp_before
        /\ pc = "e_write_header" => qp_file = Some(<<>>)
        /\ pc = "e_write_payload" => qp_file = Some(header)
        /\ Ran("write_header") =>
              /\ qp_file # None
              /\ IsPrefix(qp_file[1], header \o compressed_data)
        /\ pc = "ok" => qp_file = Some(header \o compressed_data)
        /\ (pc = "failed" /\ Ran("write_header")) =>
              Len(qp_file[1]) < Len(header \o compressed_data)

C8_Witness ==
    /\ cmd = "encode" /\ pc = "failed" /\ err = "IoError"
    /\ qp_before = Some(OldQP)
    /\ Len(header) = 14 /\ qp_file = Some(header)

(* C9. RGBA->RGB conversion: when the channel branch of decode_image has
   run with Channels = 3 on decompressed data d of length 4n, the RGB
   buffer out it built with convert_rgba_to_rgb has length exactly 3n and
   out[3i+j] = d[4i+j] for all 0 <= i < n and j in {0,1,2} (indices from
   0); with a payload of width*height*4 bytes the image is an RGB8 image of
   width x height holding exactly width*height*3 bytes. *)
C9_RgbaToRgb ==
    (cmd = "decode" /\ channels = 3 /\ Ran("channel_branch")
        /\ Len(decompressed_data) % 4 = 0) =>
        LET n == Len(decompressed_data) \div 4
            out == dynamic_image.data
        IN  /\ err # "RgbError"
            /\ dynamic_image.kind = "Rgb8"
            /\ dynamic_image.w = width /\ dynamic_image.h = height
            /\ Len(out) = 3 * n
            /\ \A i \in 0..(n - 1) : \A j \in 0..2 :
                  out[3 * i + j + 1] = decompressed_data[4 * i + j + 1]
            /\ Len(decompressed_data) = width * height * 4 =>
                  Len(out) = width * height * 3

C9_Witness ==
    /\ cmd = "decode" /\ channels = 3 /\ pc = "ok"
    /\ width = 2 /\ height = 1 /\ Len(decompressed_data) = 8
    /\ Len(dynamic_image.data) = 6
    /\ out_file[1].kind = "Rgb8" /\ Len(out_file[1].data) = 6

\* The positions of decode_image after File::open, in program order, and
\* one step of an invocation of it.
DecodePcs ==
    << "d_read_header", "d_magic", "d_parse", "d_method", "d_read_payload",
       "d_decompress", "d_reconstruct", "d_channels", "d_format", "d_save" >>
PcAt(k) == IF k = Len(DecodePcs) + 1 THEN "ok" ELSE DecodePcs[k]
C10_LinearStep ==
    (cmd = "decode" /\ cmd' = "decode") =>
        /\ Returned => UNCHANGED vars
        /\ pc = "d_open" => (pc' \in { "d_read_header", "failed" } /\ steps' = steps)
        /\ \A k \in DOMAIN DecodePcs :
              pc = DecodePcs[k] =>
                 /\ steps = SubSeq(DecodeOrder, 1, k - 1)
                 /\ steps' = SubSeq(DecodeOrder, 1, k)
                 /\ \/ pc' = PcAt(k + 1) /\ err' = ""
                    \/ pc' = "failed" /\ err' # ""
        /\ out_file' # out_file =>
              /\ pc = "d_save" /\ err = ""
              /\ steps = SubSeq(DecodeOrder, 1, 9)

(* C10. The decoder is a linear state machine: an invocation of decode_image
   runs read header, validate magic, parse fields, validate compression
   method, read payload, decompress, reconstruct buffer, channel branch,
   determine output format, encode-and-write in exactly that order, each at
   most once and never going back; a step that fails ends the invocation
   with its error and nothing runs after it; the destination file changes
   only in the tenth step, after the first nine have succeeded. *)
C10_LinearStateMachine == [][C10_LinearStep]_vars

C10_Witness ==
    /\ cmd = "decode" /\ pc = "ok" /\ steps = DecodeOrder
    /\ out_file # out_before /\ out_before = Some(OldOut)
====
